---- MODULE Spec2Model ----
(***************************************************************************)
(* Model of the enrichment core of the job-listing maintenance scripts:    *)
(*   - add_links_to_description  (scripts/add_internal_links_simple.py)    *)
(*   - calculate_brightness, infer_color_type, extract_brand_data          *)
(*                               (scripts/fetch_brand_data_branddev.py)    *)
(*                                                                         *)
(* Strings are sequences of chunks.  A chunk is either a run of letters    *)
(* (a word, or the one-letter endings "s", "y", "ies") or one punctuation  *)
(* character; the string is the concatenation of its chunks.  No chunk of  *)
(* the alphabet is a concatenation of other chunks and no pattern word is  *)
(* split over two chunks, so a regular expression of KEYWORD_CLUSTERS      *)
(* matches the string exactly where it matches chunk by chunk.             *)
(***************************************************************************)
EXTENDS Integers, Sequences, FiniteSets, TLC

(***************************************************************************)
(* Characters and case                                                     *)
(***************************************************************************)

\* The punctuation chunks; every other chunk is a run of word characters.
NonWordChunks == {" ", "-", ".", ",", "[", "]", "(", ")", "/", "?", "=", "#"}

IsWordChunk(ch) == ch \notin NonWordChunks

\* The chunks that are not already lower case.
CasedChunks ==
    {"Fractional", "FRACTIONAL", "CFO", "CMO", "CTO", "COO",
     "Finance", "Marketing", "Tech", "Operations", "Director",
     "Role", "S", "Primary", "Brand", "Accent", "Secondary",
     "PRIMARY", "Text"}

\* str.lower() on those chunks.
LowerTable ==
    [ch \in CasedChunks |->
        CASE ch = "Fractional" -> "fractional"
          [] ch = "FRACTIONAL" -> "fractional"
          [] ch = "CFO"        -> "cfo"
          [] ch = "CMO"        -> "cmo"
          [] ch = "CTO"        -> "cto"
          [] ch = "COO"        -> "coo"
          [] ch = "Finance"    -> "finance"
          [] ch = "Marketing"  -> "marketing"
          [] ch = "Tech"       -> "tech"
          [] ch = "Operations" -> "operations"
          [] ch = "Director"   -> "director"
          [] ch = "Role"       -> "role"
          [] ch = "S"          -> "s"
          [] ch = "Primary"    -> "primary"
          [] ch = "Brand"      -> "brand"
          [] ch = "Accent"     -> "accent"
          [] ch = "Secondary"  -> "secondary"
          [] ch = "PRIMARY"    -> "primary"
          [] ch = "Text"       -> "text"]

Lower(ch) == IF ch \in CasedChunks THEN LowerTable[ch] ELSE ch

\* The chunks of a role category that are not already upper case.
UncappedChunks ==
    {"cfo", "cmo", "cto", "coo", "general", "Finance", "finance",
     "Marketing", "Technology", "Operations", "Director", "Sales",
     "Tech", "Head", "of"}

\* str.upper() on those chunks.
UpperTable ==
    [ch \in UncappedChunks |->
        CASE ch = "cfo"        -> "CFO"
          [] ch = "cmo"        -> "CMO"
          [] ch = "cto"        -> "CTO"
          [] ch = "coo"        -> "COO"
          [] ch = "general"    -> "GENERAL"
          [] ch = "Finance"    -> "FINANCE"
          [] ch = "finance"    -> "FINANCE"
          [] ch = "Marketing"  -> "MARKETING"
          [] ch = "Technology" -> "TECHNOLOGY"
          [] ch = "Operations" -> "OPERATIONS"
          [] ch = "Director"   -> "DIRECTOR"
          [] ch = "Sales"      -> "SALES"
          [] ch = "Tech"       -> "TECH"
          [] ch = "Head"       -> "HEAD"
          [] ch = "of"         -> "OF"]

Upper(ch) == IF ch \in UncappedChunks THEN UpperTable[ch] ELSE ch

UpperStr(s) == [k \in 1..Len(s) |-> Upper(s[k])]

\* The upper-case chunks that contain the keyword kw as a substring.
ChunksContaining(kw) ==
    CASE kw = "CFO"       -> {"CFO"}
      [] kw = "CMO"       -> {"CMO"}
      [] kw = "CTO"       -> {"CTO", "DIRECTOR"}
      [] kw = "COO"       -> {"COO"}
      [] kw = "FINANCE"   -> {"FINANCE"}
      [] kw = "MARKET"    -> {"MARKET", "MARKETING"}
      [] kw = "TECH"      -> {"TECH", "TECHNOLOGY", "TECHNICAL"}
      [] kw = "OPERATION" -> {"OPERATION", "OPERATIONS"}

\* kw in s, for a keyword that is one run of letters.
KeywordIn(kw, s) == \E k \in 1..Len(s) : s[k] \in ChunksContaining(kw)

(***************************************************************************)
(* KEYWORD_CLUSTERS                                                        *)
(***************************************************************************)

RoleUrl(role) == <<"/", "fractional", "-", "job", "s", "?", "role", "=", role>>
GeneralUrl    == <<"/", "fractional", "-", "job", "s">>

\* r'\b(lit)s?\b'  ->  r'[\1](url)'
PatS(lit, url) == [lit |-> lit, tail |-> "s?", groups |-> 1, url |-> url]
\* r'\b(lit)\b'    ->  r'[\1](url)'
PatB(lit, url) == [lit |-> lit, tail |-> "", groups |-> 1, url |-> url]
\* r'\b(lit)(y|ies)\b'  ->  r'[\1\2](url)'
PatY(lit, url) == [lit |-> lit, tail |-> "y|ies", groups |-> 2, url |-> url]

\* The eight pattern shapes the four role clusters share.
RolePatterns(role, director, url) ==
    << PatS(<<"Fractional", " ", role>>, url),
       PatS(<<"fractional", " ", role>>, url),
       PatS(<<"Fractional", " ", director, " ", "Director">>, url),
       PatS(<<"fractional", " ", Lower(director), " ", "director">>, url),
       PatS(<<role, " ", "role">>, url),
       PatS(<<"part", "-", "time", " ", role>>, url),
       PatY(<<role, " ", "opportunit">>, url) >>

KEYWORD_CLUSTERS ==
    [name \in {"CFO", "CMO", "CTO", "COO", "general"} |->
      CASE name = "CFO" ->
            [url |-> RoleUrl("CFO"),
             patterns |->
               RolePatterns("CFO", "Finance", RoleUrl("CFO")) \o
               << PatB(<<"finance", " ", "leadership">>, RoleUrl("CFO")),
                  PatS(<<"senior", " ", "finance", " ", "leader">>, RoleUrl("CFO")),
                  PatB(<<"strategic", " ", "financial">>, RoleUrl("CFO")) >>]
        [] name = "CMO" ->
            [url |-> RoleUrl("CMO"),
             patterns |->
               RolePatterns("CMO", "Marketing", RoleUrl("CMO")) \o
               << PatB(<<"marketing", " ", "leadership">>, RoleUrl("CMO")) >>]
        [] name = "CTO" ->
            [url |-> RoleUrl("CTO"),
             patterns |->
               RolePatterns("CTO", "Tech", RoleUrl("CTO")) \o
               << PatB(<<"technology", " ", "leadership">>, RoleUrl("CTO")),
                  PatB(<<"technical", " ", "leadership">>, RoleUrl("CTO")) >>]
        [] name = "COO" ->
            [url |-> RoleUrl("COO"),
             patterns |->
               RolePatterns("COO", "Operations", RoleUrl("COO")) \o
               << PatB(<<"operations", " ", "leadership">>, RoleUrl("COO")) >>]
        [] name = "general" ->
            [url |-> GeneralUrl,
             patterns |->
               << PatS(<<"fractional", " ", "role">>, GeneralUrl),
                  PatS(<<"fractional", " ", "job">>, GeneralUrl),
                  PatS(<<"fractional", " ", "executive">>, GeneralUrl),
                  PatS(<<"fractional", " ", "leader">>, GeneralUrl),
                  PatS(<<"fractional", " ", "position">>, GeneralUrl),
                  PatS(<<"part", "-", "time", " ", "executive">>, GeneralUrl),
                  PatS(<<"portfolio", " ", "career">>, GeneralUrl),
                  PatY(<<"fractional", " ", "opportunit">>, GeneralUrl),
                  PatB(<<"fractional", " ", "work">>, GeneralUrl),
                  PatS(<<"fractional", " ", "engagement">>, GeneralUrl) >>]]

(***************************************************************************)
(* Regular-expression matching (re.search / re.sub with re.IGNORECASE)     *)
(***************************************************************************)

\* Is there a word character at position k of t (none outside the string)?
WordAt(t, k) == k >= 1 /\ k <= Len(t) /\ IsWordChunk(t[k])

\* \b between positions k-1 and k.
Boundary(t, k) == WordAt(t, k - 1) # WordAt(t, k)

\* Variant: the space of a pattern matches any one punctuation character
\* (r'\W' in place of ' ').
LitAtAnySeparator(pat, t, i) ==
    /\ i + Len(pat.lit) - 1 <= Len(t)
    /\ \A k \in 1..Len(pat.lit) :
          IF pat.lit[k] = " " THEN ~IsWordChunk(t[i + k - 1])
          ELSE Lower(t[i + k - 1]) = Lower(pat.lit[k])

\* Does the literal of the pattern match at position i, ignoring case?
LitAt(pat, t, i) ==
    /\ i + Len(pat.lit) - 1 <= Len(t)
    /\ \A k \in 1..Len(pat.lit) : Lower(t[i + k - 1]) = Lower(pat.lit[k])

\* Number of chunks the pattern matches at position i; 0 when it does not.
MatchLen(pat, t, i) ==
    IF ~(Boundary(t, i) /\ LitAt(pat, t, i)) THEN 0
    ELSE LET j == i + Len(pat.lit)
         IN CASE pat.tail = "s?" ->
                   IF j <= Len(t) /\ Lower(t[j]) = "s" /\ Boundary(t, j + 1)
                   THEN Len(pat.lit) + 1
                   ELSE IF Boundary(t, j) THEN Len(pat.lit) ELSE 0
              [] pat.tail = "" ->
                   IF Boundary(t, j) THEN Len(pat.lit) ELSE 0
              [] pat.tail = "y|ies" ->
                   IF j <= Len(t) /\ Lower(t[j]) \in {"y", "ies"}
                      /\ Boundary(t, j + 1)
                   THEN Len(pat.lit) + 1 ELSE 0

\* The positions where a match can start: every pattern starts with \b and
\* a letter, so a match starts at the first chunk of a word.
WordStarts(t) == {i \in 1..Len(t) : IsWordChunk(t[i]) /\ Boundary(t, i)}

\* re.search among the positions starts: the leftmost position where the
\* pattern matches, 0 for None.
SearchIn(pat, t, starts) ==
    LET hits == {i \in starts : MatchLen(pat, t, i) > 0}
    IN IF hits = {} THEN 0
       ELSE CHOOSE i \in hits : \A j \in hits : i <= j

Search(pat, t) == SearchIn(pat, t, WordStarts(t))

\* The text the replacement template puts for the groups \1 (and \2).
GroupText(pat, t, i) ==
    IF pat.groups = 2 THEN SubSeq(t, i, i + Len(pat.lit))
    ELSE SubSeq(t, i, i + Len(pat.lit) - 1)

\* re.sub on the rightmost match instead of the leftmost one.
SubRightmost(pat, t) ==
    LET matches == {k \in WordStarts(t) : MatchLen(pat, t, k) > 0}
        i == IF matches = {} THEN 0
             ELSE CHOOSE k \in matches : \A m \in matches : m <= k
    IN IF i = 0 THEN t
       ELSE SubSeq(t, 1, i - 1)
            \o <<"[">> \o GroupText(pat, t, i) \o <<"]", "(">>
            \o pat.url \o <<")">>
            \o SubSeq(t, i + MatchLen(pat, t, i), Len(t))

\* re.sub(pattern, replacement, t, count=1): the leftmost match replaced.
Sub(pat, t) ==
    LET i == Search(pat, t)
    IN IF i = 0 THEN t
       ELSE SubSeq(t, 1, i - 1)
            \o <<"[">> \o GroupText(pat, t, i) \o <<"]", "(">>
            \o pat.url \o <<")">>
            \o SubSeq(t, i + MatchLen(pat, t, i), Len(t))

(***************************************************************************)
(* add_links_to_description                                                *)
(***************************************************************************)

\* The chunks that start with the letter "s".
StartsWithS == {"s", "senior", "strategic", "secondary"}

\* '](/fractional-jobs' at position k of t (a substring test, case matters).
MarkerAt(t, k) ==
    /\ k + 6 <= Len(t)
    /\ SubSeq(t, k, k + 5) = <<"]", "(", "/", "fractional", "-", "job">>
    /\ t[k + 6] \in StartsWithS

\* Variant: text.startswith(marker) in place of marker in text.
HasMarkerAtStart(t) == MarkerAt(t, 1)

HasMarker(t) == \E k \in 1..Len(t) : MarkerAt(t, k)

max_links == 3

\* Variant: list.append(x) in place of list.insert(0, x).
InsertBack(x, list) == list \o <<x>>

\* list.insert(0, x)
InsertFront(x, list) == <<x>> \o list

InList(x, list) == \E k \in 1..Len(list) : list[k] = x

\* Variant: the remaining clusters appended without the membership test.
AppendAll(order, rest) == order \o rest

\* for cluster in rest: if cluster not in order: order.append(cluster)
RECURSIVE AppendMissing(_, _)
AppendMissing(order, rest) ==
    IF rest = <<>> THEN order
    ELSE AppendMissing(IF InList(Head(rest), order) THEN order
                       ELSE Append(order, Head(rest)),
                       Tail(rest))

\* The priority order of the clusters for a role category.
ClusterOrder(role_category) ==
    LET role_upper == UpperStr(role_category)
        first ==
          IF role_category = <<>> THEN <<"general">>
          ELSE IF Len(role_upper) = 1
                  /\ role_upper[1] \in DOMAIN KEYWORD_CLUSTERS
               THEN InsertFront(role_upper[1], <<"general">>)
          ELSE IF KeywordIn("CFO", role_upper) \/ KeywordIn("FINANCE", role_upper)
               THEN InsertFront("CFO", <<"general">>)
          ELSE IF KeywordIn("CMO", role_upper) \/ KeywordIn("MARKET", role_upper)
               THEN InsertFront("CMO", <<"general">>)
          ELSE IF KeywordIn("CTO", role_upper) \/ KeywordIn("TECH", role_upper)
               THEN InsertFront("CTO", <<"general">>)
          ELSE IF KeywordIn("COO", role_upper) \/ KeywordIn("OPERATION", role_upper)
               THEN InsertFront("COO", <<"general">>)
          ELSE <<"general">>
    IN AppendMissing(first, <<"CFO", "CMO", "CTO", "COO">>)

\* for pattern, replacement in patterns: if re.search(pattern, t): break
\* The index of the first pattern from the p-th on that matches t, 0 when
\* none does.
RECURSIVE FirstMatchingFrom(_, _, _, _)
FirstMatchingFrom(patterns, t, starts, p) ==
    IF p > Len(patterns) THEN 0
    ELSE IF SearchIn(patterns[p], t, starts) > 0 THEN p
    ELSE FirstMatchingFrom(patterns, t, starts, p + 1)

FirstMatching(patterns, t) == FirstMatchingFrom(patterns, t, WordStarts(t), 1)

\* Variant: the budget test links_added > max_links in place of >=.
RECURSIVE ApplyClustersLate(_, _, _)
ApplyClustersLate(order, k, acc) ==
    IF k > Len(order) \/ acc.links_added > max_links THEN acc
    ELSE LET patterns == KEYWORD_CLUSTERS[order[k]].patterns
             p == FirstMatching(patterns, acc.text)
         IN IF p = 0 THEN ApplyClustersLate(order, k + 1, acc)
            ELSE ApplyClustersLate(order, k + 1,
                   [text |-> Sub(patterns[p], acc.text),
                    links_added |-> acc.links_added + 1,
                    clusters_used |-> Append(acc.clusters_used, order[k])])

\* The loop over cluster_order, from its k-th cluster on.
RECURSIVE ApplyClusters(_, _, _)
ApplyClusters(order, k, acc) ==
    IF k > Len(order) \/ acc.links_added >= max_links THEN acc
    ELSE LET patterns == KEYWORD_CLUSTERS[order[k]].patterns
             p == FirstMatching(patterns, acc.text)
         IN IF p = 0 THEN ApplyClusters(order, k + 1, acc)
            ELSE ApplyClusters(order, k + 1,
                   [text |-> Sub(patterns[p], acc.text),
                    links_added |-> acc.links_added + 1,
                    clusters_used |-> Append(acc.clusters_used, order[k])])

\* Variant: without the test for a link that is already there.
add_links_unguarded(t, role_category) ==
    IF t = <<>>
    THEN [text |-> t, links_added |-> 0, clusters_used |-> <<>>]
    ELSE ApplyClusters(ClusterOrder(role_category), 1,
                       [text |-> t, links_added |-> 0, clusters_used |-> <<>>])

add_links_to_description(t, role_category) ==
    IF t = <<>> \/ HasMarker(t)
    THEN [text |-> t, links_added |-> 0, clusters_used |-> <<>>]
    ELSE ApplyClusters(ClusterOrder(role_category), 1,
                       [text |-> t, links_added |-> 0, clusters_used |-> <<>>])

(***************************************************************************)
(* calculate_brightness and infer_color_type                               *)
(***************************************************************************)

HexDigits ==
    {"0", "1", "2", "3", "4", "5", "6", "7", "8", "9",
     "a", "b", "c", "d", "e", "f", "A", "B", "C", "D", "E", "F"}

\* int(d, 16) of one hexadecimal digit.
HexValue ==
    [d \in HexDigits |->
        CASE d = "0" -> 0  [] d = "1" -> 1  [] d = "2" -> 2  [] d = "3" -> 3
          [] d = "4" -> 4  [] d = "5" -> 5  [] d = "6" -> 6  [] d = "7" -> 7
          [] d = "8" -> 8  [] d = "9" -> 9
          [] d \in {"a", "A"} -> 10  [] d \in {"b", "B"} -> 11
          [] d \in {"c", "C"} -> 12  [] d \in {"d", "D"} -> 13
          [] d \in {"e", "E"} -> 14  [] d \in {"f", "F"} -> 15]

\* int(h[i-1:i+1], 16): the two digits at positions i, i+1 (counted from 1).
HexPair(h, i) == 16 * HexValue[h[i]] + HexValue[h[i + 1]]

\* str.lstrip('#')
RECURSIVE LStripHash(_)
LStripHash(h) ==
    IF h # <<>> /\ Head(h) = "#" THEN LStripHash(Tail(h)) ELSE h

\* The weighted sum r * 299 + g * 587 + b * 114 of the colour.
Luminance(hex_color) ==
    LET h == LStripHash(hex_color)
    IN HexPair(h, 1) * 299 + HexPair(h, 3) * 587 + HexPair(h, 5) * 114

\* Variant: round(x / 1000) in place of int(x / 1000).
calculate_brightness_rounded(hex_color) ==
    (Luminance(hex_color) + 500) \div 1000

\* int(x / 1000) truncates; x is not negative.
calculate_brightness(hex_color) == Luminance(hex_color) \div 1000

\* The lower-case chunks that contain the word kw as a substring.
NameChunksContaining(kw) ==
    CASE kw = "primary"   -> {"primary"}
      [] kw = "brand"     -> {"brand", "branding"}
      [] kw = "accent"    -> {"accent"}
      [] kw = "secondary" -> {"secondary"}

\* kw in name_lower, where name_lower is color_name.lower(), or "" for an
\* absent name (<<>>).
NameHas(kw, color_name) ==
    \E k \in 1..Len(color_name) :
        Lower(color_name[k]) \in NameChunksContaining(kw)

\* Variant: the name is looked at before the brightness extremes.
infer_color_type_name_first(color_name, b) ==
    IF NameHas("primary", color_name) \/ NameHas("brand", color_name)
    THEN "brand"
    ELSE IF NameHas("accent", color_name) \/ NameHas("secondary", color_name)
    THEN "accent"
    ELSE IF b < 50 THEN "dark"
    ELSE IF b > 200 THEN "light"
    ELSE IF b < 128 THEN "dark"
    ELSE "accent"

infer_color_type(color_name, b) ==
    IF b < 50 THEN "dark"
    ELSE IF b > 200 THEN "light"
    ELSE IF NameHas("primary", color_name) \/ NameHas("brand", color_name)
    THEN "brand"
    ELSE IF NameHas("accent", color_name) \/ NameHas("secondary", color_name)
    THEN "accent"
    ELSE IF b < 128 THEN "dark"
    ELSE "accent"

(***************************************************************************)
(* extract_brand_data (Brand.dev): the colours of the brand record         *)
(***************************************************************************)

\* The loop over brand.get('colors', []): one entry per colour.
ClassifyColors(colors) ==
    [k \in 1..Len(colors) |->
        LET b == calculate_brightness(colors[k].hex)
        IN [hex |-> colors[k].hex,
            type |-> infer_color_type(colors[k].name, b),
            brightness |-> b]]

\* c put behind the entries of the sorted list that are not brighter.
RECURSIVE InsertByBrightness(_, _)
InsertByBrightness(sorted, c) ==
    IF sorted = <<>> THEN <<c>>
    ELSE IF Head(sorted).brightness <= c.brightness
         THEN <<Head(sorted)>> \o InsertByBrightness(Tail(sorted), c)
         ELSE <<c>> \o sorted

\* Variant: the list left in the order of the payload.
KeepOrder(colors) == colors

\* colors.sort(key=lambda c: c['brightness']); list.sort is stable.
RECURSIVE SortByBrightness(_)
SortByBrightness(colors) ==
    IF colors = <<>> THEN <<>>
    ELSE InsertByBrightness(SortByBrightness(SubSeq(colors, 1, Len(colors) - 1)),
                            colors[Len(colors)])

\* colors[i]['type'] = ty
SetType(colors, i, ty) == [colors EXCEPT ![i].type = ty]

\* The positional labels put on the sorted list.
LabelByPosition(colors) ==
    IF colors = <<>> THEN colors
    ELSE LET c1 == SetType(colors, 1, "dark")
             c2 == IF Len(colors) > 1 THEN SetType(c1, Len(colors), "light")
                   ELSE c1
         IN IF Len(colors) > 2 THEN SetType(c2, 2, "accent") ELSE c2

\* The 'colors' field of the record extract_brand_data returns.
ExtractColors(colors) == LabelByPosition(SortByBrightness(ClassifyColors(colors)))

(***************************************************************************)
(* Values of a provider payload                                            *)
(***************************************************************************)

\* A key of a JSON object is absent, holds null, or holds a value.
Absent == [tag |-> "absent"]
None == [tag |-> "null"]
Val(v) == [tag |-> "value", v |-> v]

\* dict.get(key, default)
Get(field, default) == IF field.tag = "absent" THEN Val(default) ELSE field

\* dict.get(key)
GetNone(field) == IF field.tag = "absent" THEN None ELSE field

\* bool(x) of a string or null, and of a list or null
TruthyStr(field) == field.tag = "value" /\ field.v # ""
TruthyList(field) == field.tag = "value" /\ field.v # <<>>

\* x == 'literal'
IsStr(field, literal) == field.tag = "value" /\ field.v = literal

\* str(x) inside an f-string
Str(field) == IF field.tag = "null" THEN "None" ELSE field.v

\* {} and d[key] = value
EmptyDict == [k \in {} |-> None]
Put(d, key, value) ==
    [k \in DOMAIN d \cup {key} |-> IF k = key THEN value ELSE d[k]]

\* Objects none of whose keys is present.
NoBrand ==
    [colors |-> Absent, logos |-> Absent, backdrops |-> Absent,
     description |-> Absent, address |-> Absent, industries |-> Absent]
NoAddress == [city |-> Absent, country |-> Absent]
NoIndustries == [eic |-> Absent]
NoCompany ==
    [foundedYear |-> Absent, numberOfEmployees |-> Absent,
     industries |-> Absent]

(***************************************************************************)
(* extract_brand_data of fetch_brand_data_branddev.py                      *)
(***************************************************************************)

\* '#888888', the colour of an entry without 'hex'
DefaultHex == <<"#", "8", "8", "8", "8", "8", "8">>

\* brand['colors'] as (hex, name) pairs: color.get('hex', '#888888') and
\* color.get('name', ''), a null name counting as '' in infer_color_type.
HexAndName(colors) ==
    [k \in 1..Len(colors) |->
        [hex  |-> Get(colors[k].hex, DefaultHex).v,
         name |-> IF colors[k].name.tag = "value"
                  THEN colors[k].name.v ELSE <<>>]]

\* The key f"{logo_type}_{mode}" of a logo.
BranddevLogoKey(logo) ==
    LET logo_type == Get(logo.type, "logo")
        mode == Get(logo.mode, "dark")
    IN <<Str(logo_type), "_",
         IF IsStr(mode, "has_opaque_background") THEN "dark" ELSE Str(mode)>>

\* The dict the loop over brand['logos'] builds, starting from logos.
RECURSIVE BranddevLogos(_, _)
BranddevLogos(list, logos) ==
    IF list = <<>> THEN logos
    ELSE BranddevLogos(Tail(list),
            Put(logos, BranddevLogoKey(Head(list)), GetNone(Head(list).url)))

\* banners: the url of the first backdrop, if there is a backdrop
Banners(backdrops) ==
    IF TruthyList(backdrops)
    THEN Put(EmptyDict, "banner", GetNone(backdrops.v[1].url))
    ELSE EmptyDict

\* The names of the entries of industries['eic'] that have one.
RECURSIVE IndustryNames(_)
IndustryNames(eic) ==
    IF eic = <<>> THEN <<>>
    ELSE IF TruthyStr(GetNone(Head(eic).industry))
         THEN <<Head(eic).industry.v>> \o IndustryNames(Tail(eic))
         ELSE IndustryNames(Tail(eic))

\* industries: only when brand['industries'] is an object
Industries(industry_data) ==
    IF industry_data.tag = "value"
    THEN IndustryNames(Get(industry_data.v.eic, <<>>).v)
    ELSE <<>>

\* round(sum(quality_factors) / len(quality_factors), 2), in hundredths,
\* truncated instead of rounded
QualityScoreTruncated(quality_factors) ==
    (100 * Cardinality({k \in 1..Len(quality_factors) : quality_factors[k]}))
        \div Len(quality_factors)

\* round(sum(quality_factors) / len(quality_factors), 2), in hundredths
QualityScore(quality_factors) ==
    LET k == Cardinality({i \in 1..Len(quality_factors) : quality_factors[i]})
        n == Len(quality_factors)
    IN (200 * k + n) \div (2 * n)

\* Does extract_brand_data raise?  A null where an object or a list is
\* expected makes '.get' or the loop over it fail, and a null 'hex' fails
\* in calculate_brightness.
BranddevRaises(api_response) ==
    LET brand == Get(api_response.brand, NoBrand)
    IN \/ brand.tag = "null"
       \/ /\ brand.tag = "value"
          /\ LET colors == Get(brand.v.colors, <<>>)
                 industry_data == Get(brand.v.industries, NoIndustries)
             IN \/ colors.tag = "null"
                \/ /\ colors.tag = "value"
                   /\ \E k \in 1..Len(colors.v) : colors.v[k].hex.tag = "null"
                \/ Get(brand.v.logos, <<>>).tag = "null"
                \/ Get(brand.v.address, NoAddress).tag = "null"
                \/ /\ industry_data.tag = "value"
                   /\ Get(industry_data.v.eic, <<>>).tag = "null"

\* The record extract_brand_data returns when it does not raise.
BranddevRecord(api_response) ==
    LET brand == Get(api_response.brand, NoBrand).v
        colors == ExtractColors(HexAndName(Get(brand.colors, <<>>).v))
        logos == BranddevLogos(Get(brand.logos, <<>>).v, EmptyDict)
        banners == Banners(Get(brand.backdrops, <<>>))
        address == Get(brand.address, NoAddress).v
        industries == Industries(Get(brand.industries, NoIndustries))
        quality_factors ==
            << colors # <<>>,
               DOMAIN logos # {},
               DOMAIN banners # {},
               TruthyStr(GetNone(brand.description)),
               TruthyStr(GetNone(address.city)),
               industries # <<>> >>
    IN [colors        |-> colors,
        font_title    |-> None,
        font_body     |-> None,
        logos         |-> logos,
        banners       |-> banners,
        description   |-> GetNone(brand.description),
        founded       |-> None,
        employees     |-> None,
        city          |-> GetNone(address.city),
        country       |-> GetNone(address.country),
        company_kind  |-> None,
        industries    |-> industries,
        quality_score |-> QualityScore(quality_factors)]

\* extract_brand_data(api_response): an exception or the record
extract_brand_data_branddev(api_response) ==
    IF BranddevRaises(api_response)
    THEN [raised |-> TRUE, data |-> <<>>]
    ELSE [raised |-> FALSE, data |-> BranddevRecord(api_response)]

(***************************************************************************)
(* extract_brand_data of fetch_brand_data.py (Brandfetch)                  *)
(***************************************************************************)

\* colors: hex, type and brightness of each entry, null where absent
BrandfetchColors(colors) ==
    [k \in 1..Len(colors) |->
        [hex        |-> GetNone(colors[k].hex),
         type       |-> GetNone(colors[k].type),
         brightness |-> GetNone(colors[k].brightness)]]

\* The name of the last font of the given type, None if there is none.
RECURSIVE FontOfType(_, _, _)
FontOfType(fonts, type, found) ==
    IF fonts = <<>> THEN found
    ELSE FontOfType(Tail(fonts), type,
            IF IsStr(GetNone(Head(fonts).type), type)
            THEN GetNone(Head(fonts).name) ELSE found)

\* The loop over the formats of a logo that stops at the first PNG as it
\* does at the first SVG.
RECURSIVE PickFirstFormat(_, _)
PickFirstFormat(formats, src) ==
    IF formats = <<>> THEN src
    ELSE IF IsStr(GetNone(Head(formats).format), "svg")
              \/ IsStr(GetNone(Head(formats).format), "png")
         THEN GetNone(Head(formats).src)
         ELSE PickFirstFormat(Tail(formats), src)

\* The loop over the formats of a logo: src is what logos[key] was given so
\* far (Absent: nothing).  An SVG ends the loop, a PNG does not.
RECURSIVE PickFormat(_, _)
PickFormat(formats, src) ==
    IF formats = <<>> THEN src
    ELSE IF IsStr(GetNone(Head(formats).format), "svg")
         THEN GetNone(Head(formats).src)
         ELSE IF IsStr(GetNone(Head(formats).format), "png")
              THEN PickFormat(Tail(formats), GetNone(Head(formats).src))
              ELSE PickFormat(Tail(formats), src)

\* The key f"{logo_type}_{theme}" of a logo.
BrandfetchLogoKey(logo) ==
    <<Str(Get(logo.type, "logo")), "_", Str(Get(logo.theme, "light"))>>

\* The dict the loop over api_response['logos'] builds, starting from logos.
RECURSIVE BrandfetchLogos(_, _)
BrandfetchLogos(list, logos) ==
    IF list = <<>> THEN logos
    ELSE LET src == PickFormat(Get(Head(list).formats, <<>>).v, Absent)
         IN BrandfetchLogos(Tail(list),
                IF src = Absent THEN logos
                ELSE Put(logos, BrandfetchLogoKey(Head(list)), src))

\* Does extract_brand_data raise?  A null where a list or an object is
\* expected makes the loop over it or '.get' fail.
BrandfetchRaises(api_response) ==
    LET logos == Get(api_response.logos, <<>>)
        company_info == Get(api_response.company, NoCompany)
    IN \/ Get(api_response.colors, <<>>).tag = "null"
       \/ Get(api_response.fonts, <<>>).tag = "null"
       \/ logos.tag = "null"
       \/ /\ logos.tag = "value"
          /\ \E k \in 1..Len(logos.v) :
                Get(logos.v[k].formats, <<>>).tag = "null"
       \/ company_info.tag = "null"
       \/ /\ company_info.tag = "value"
          /\ Get(company_info.v.industries, <<>>).tag = "null"

\* The record extract_brand_data returns when it does not raise.
BrandfetchRecord(api_response) ==
    LET fonts == Get(api_response.fonts, <<>>).v
        company_info == Get(api_response.company, NoCompany).v
        industries == Get(company_info.industries, <<>>).v
    IN [colors        |-> BrandfetchColors(Get(api_response.colors, <<>>).v),
        font_title    |-> FontOfType(fonts, "title", None),
        font_body     |-> FontOfType(fonts, "body", None),
        logos         |-> BrandfetchLogos(Get(api_response.logos, <<>>).v,
                                          EmptyDict),
        description   |-> GetNone(api_response.description),
        founded       |-> GetNone(company_info.foundedYear),
        employees     |-> GetNone(company_info.numberOfEmployees),
        location      |-> None,
        industries    |-> [k \in 1..Len(industries) |->
                              GetNone(industries[k].name)],
        quality_score |-> GetNone(api_response.qualityScore)]

\* extract_brand_data(api_response): an exception or the record
extract_brand_data_brandfetch(api_response) ==
    IF BrandfetchRaises(api_response)
    THEN [raised |-> TRUE, data |-> <<>>]
    ELSE [raised |-> FALSE, data |-> BrandfetchRecord(api_response)]

(***************************************************************************)
(* The jobs table and the candidate filters                                *)
(***************************************************************************)

Min(S) == CHOOSE x \in S : \A y \in S : x <= y
Max(S) == CHOOSE x \in S : \A y \in S : x >= y

\* The numbers of S in ascending order.
RECURSIVE Ascending(_)
Ascending(S) ==
    IF S = {} THEN <<>> ELSE <<Min(S)>> \o Ascending(S \ {Min(S)})

\* LIMIT n
Limit(rows, n) == SubSeq(rows, 1, IF n < Len(rows) THEN n ELSE Len(rows))

\* The rows of the jobs table are kept in the order of both ORDER BY
\* clauses: newest first, and by company name.
\* WHERE is_active AND full_description IS NOT NULL AND full_description
\* != '' AND full_description NOT LIKE '%](/fractional-jobs%'
WithoutLinks(job) ==
    /\ job.is_active
    /\ job.full_description # <<>>
    /\ ~HasMarker(job.full_description)

\* WHERE is_active AND full_description IS NOT NULL AND full_description
\* != ''
WithDescription(job) == job.is_active /\ job.full_description # <<>>

\* The selected columns of the rows with the given ids.
JobRows(table, ids) ==
    LET order == Ascending(ids)
    IN [k \in 1..Len(order) |->
          [id               |-> order[k],
           role_category    |-> table[order[k]].role_category,
           full_description |-> table[order[k]].full_description]]

\* fetch_jobs_without_links(conn, limit), the same in both link scripts
fetch_jobs_without_links(table, limit) ==
    Limit(JobRows(table, {k \in 1..Len(table) : WithoutLinks(table[k])}),
          limit)

\* fetch_all_jobs(conn, limit)
fetch_all_jobs(table, limit) ==
    Limit(JobRows(table, {k \in 1..Len(table) : WithDescription(table[k])}),
          limit)

\* UPDATE jobs SET full_description = ... WHERE id = ..., left out
update_job_description_skipped(table, job_id, new_description) == table

\* update_job_description(conn, job_id, new_description) and the commit
update_job_description(table, job_id, new_description) ==
    [table EXCEPT ![job_id].full_description = new_description]

(***************************************************************************)
(* The company_brands table                                                *)
(***************************************************************************)

\* SQL NULL, and the value a save takes from a payload: which script took
\* it from which payload.  (fetched_at = NOW() is left out.)
NULL == <<>>
Value(script, payload) == <<script, payload>>

\* The columns the two INSERT ... ON CONFLICT statements name.
BrandfetchColumns ==
    {"company_name", "colors", "font_title", "font_body", "logos",
     "description", "founded", "employees", "location", "industries",
     "quality_score"}

BranddevColumns ==
    {"company_name", "colors", "font_title", "font_body", "logos", "banners",
     "description", "founded", "employees", "city", "country",
     "company_kind", "industries", "quality_score", "provider"}

Columns == BrandfetchColumns \cup BranddevColumns

\* The row of a domain.
HasRow(brands, domain) == \E row \in brands : row.domain = domain
RowOf(brands, domain) == CHOOSE row \in brands : row.domain = domain

\* Is the field of the record null?  Lists and dicts never are, nor is the
\* score the Brand.dev script computes.
IsNull(script, brand_data, field) ==
    /\ field \notin {"colors", "logos", "banners", "industries"}
    /\ ~(script = "branddev" /\ field = "quality_score")
    /\ brand_data[field] = None

\* The parameters of the INSERT of the Brandfetch script.
BrandfetchValues(company_name, brand_data, payload) ==
    [c \in BrandfetchColumns |->
        IF c = "company_name" THEN <<company_name>>
        ELSE IF IsNull("brandfetch", brand_data, c) THEN NULL
        ELSE Value("brandfetch", payload)]

\* The parameters of the INSERT of the Brand.dev script.
BranddevValues(company_name, brand_data, payload) ==
    [c \in BranddevColumns |->
        IF c = "company_name" THEN <<company_name>>
        ELSE IF c = "provider" THEN <<"branddev">>
        ELSE IF IsNull("branddev", brand_data, c) THEN NULL
        ELSE Value("branddev", payload)]

\* INSERT ... ON CONFLICT (domain) DO UPDATE SET the named columns:
\* columns the statement does not name get their default (NULL) in a new
\* row and keep their value in an existing one.
Upsert(brands, domain, values) ==
    IF HasRow(brands, domain)
    THEN LET old == RowOf(brands, domain)
         IN (brands \ {old}) \cup
                { [old EXCEPT !.cols =
                      [c \in Columns |->
                          IF c \in DOMAIN values THEN values[c]
                          ELSE old.cols[c]]] }
    ELSE brands \cup
            { [domain |-> domain,
               cols   |-> [c \in Columns |->
                              IF c \in DOMAIN values THEN values[c]
                              ELSE NULL]] }

\* LEFT JOIN company_brands ... WHERE cb.id IS NULL
WithoutBrand(brands, domain) == ~HasRow(brands, domain)

\* ... WHERE cb.id IS NULL OR cb.provider != 'branddev'
\*        OR cb.provider IS NULL
WithoutBranddevBrand(brands, domain) ==
    \/ ~HasRow(brands, domain)
    \/ RowOf(brands, domain).cols["provider"] # <<"branddev">>

\* SELECT DISTINCT company_domain, company_name of the given jobs
RECURSIVE Companies(_, _)
Companies(table, ids) ==
    IF ids = <<>> THEN <<>>
    ELSE LET company == [company_domain |-> table[Head(ids)].company_domain,
                         company_name   |-> table[Head(ids)].company_name]
             others == Companies(table, Tail(ids))
         IN IF \E k \in 1..Len(others) : others[k] = company
            THEN others ELSE <<company>> \o others

\* WHERE is_active AND company_domain IS NOT NULL AND company_domain != ''
HasDomain(job) == job.is_active /\ job.company_domain # ""

\* get_companies_without_brands(conn, limit) of the Brandfetch script
get_companies_without_brands(table, brands, limit) ==
    Limit(Companies(table,
            Ascending({k \in 1..Len(table) :
                /\ HasDomain(table[k])
                /\ WithoutBrand(brands, table[k].company_domain)})),
          limit)

\* get_companies_without_brands(conn, limit, 'branddev') of the Brand.dev
\* script
get_companies_without_branddev(table, brands, limit) ==
    Limit(Companies(table,
            Ascending({k \in 1..Len(table) :
                /\ HasDomain(table[k])
                /\ WithoutBranddevBrand(brands, table[k].company_domain)})),
          limit)

\* [{'company_domain': d, 'company_name': d} for d in domains]
CompaniesOf(domains) ==
    [k \in 1..Len(domains) |->
        [company_domain |-> domains[k], company_name |-> domains[k]]]

(***************************************************************************)
(* The loops of the four scripts                                           *)
(***************************************************************************)

Scripts == {"regex", "ai", "brandfetch", "branddev"}

\* A script that is not running.
Idle ==
    [pc |-> "idle", batch |-> <<>>, i |-> 0, dry_run |-> FALSE,
     force |-> FALSE, success_count |-> 0, skip_count |-> 0,
     error_count |-> 0, no_match_count |-> 0]

\* A script that has fetched its batch: an empty batch of jobs ends the
\* link scripts at once, and an empty list of companies ends the loop.
Started(batch, dry_run, force) ==
    [Idle EXCEPT !.pc = IF batch = <<>> THEN "done" ELSE "loop",
                 !.batch = batch, !.dry_run = dry_run, !.force = force]

\* counter += 1, forgotten for every counter but success_count
BumpSuccessOnly(r, counter) ==
    IF counter = "success_count" THEN [r EXCEPT ![counter] = @ + 1] ELSE r

\* counter += 1
Bump(r, counter) == [r EXCEPT ![counter] = @ + 1]

\* The next turn of a loop that has no pause: the record is done.
Advance(r) ==
    [r EXCEPT !.i = @ + 1,
              !.pc = IF r.i + 1 = Len(r.batch) THEN "done" ELSE "loop"]

\* The regex script writes whenever links were added, dry run or not.
WritesAlways(links_added, dry_run) == links_added > 0

\* if links_added > 0: if not dry_run: update_job_description(...)
Writes(links_added, dry_run) == links_added > 0 /\ ~dry_run

\* if api_response: of the Brandfetch script ({} is falsy)
BrandfetchAnswered(response) ==
    /\ response.tag = "value"
    /\ \E key \in DOMAIN response.v : response.v[key] # Absent

\* if api_response and api_response.get('brand'): of the Brand.dev script
BranddevAnswered(response) ==
    /\ response.tag = "value"
    /\ response.v.brand.tag = "value"
    /\ \E key \in DOMAIN response.v.brand.v : response.v.brand.v[key] # Absent

(***************************************************************************)
(* State                                                                   *)
(***************************************************************************)

VARIABLES
    pc,             \* position of the run being modelled
    text,           \* add_links_to_description: the description passed in
    role_category,  \* add_links_to_description: the role hint (<<>> = None)
    updated_text,   \* first element of the returned tuple
    links_added,    \* second element of the returned tuple
    clusters_used,  \* third element of the returned tuple
    again_text,     \* updated_text of a second call on updated_text
    again_links,    \* links_added of that second call
    hex_color,      \* calculate_brightness: the colour passed in
    color_name,     \* infer_color_type: the name hint (<<>> = absent)
    brightness,     \* infer_color_type: the brightness passed in
    color_type,     \* the role infer_color_type returned
    colors_in,      \* extract_brand_data: brand['colors'] of the payload
    brand_colors,   \* extract_brand_data: 'colors' of the returned record
    provider,       \* the script whose extract_brand_data is called
    api_response,   \* extract_brand_data: the payload passed in
    brand_data,     \* the record extract_brand_data returned
    raised,         \* extract_brand_data raised an exception
    jobs,           \* the jobs table
    company_brands, \* the company_brands table
    run,            \* each script: its place in the loop, batch, counters
    runs_started,   \* number of runs started
    last_step,      \* history: the last turn of a loop and the tables before
    last_saves,     \* history: the values of the last save of each domain
    persisted,      \* history: records each script wrote, not forced
    skipped,        \* history: records each script left as they were
    unpaused,       \* history: a request was sent and no pause made since
    back_to_back    \* history: scripts that sent requests without a pause

linkVars == <<text, role_category, updated_text, links_added, clusters_used,
              again_text, again_links>>

colorVars == <<hex_color, color_name, brightness, color_type>>

brandVars == <<colors_in, brand_colors>>

extractVars == <<provider, api_response, brand_data, raised>>

runVars == <<jobs, company_brands, run, runs_started, last_step, last_saves,
             persisted, skipped, unpaused, back_to_back>>

restVars == <<extractVars, runVars>>

vars == <<pc, linkVars, colorVars, brandVars, restVars>>

\* The variables of the calls a run does not make.
NoLinkCall ==
    /\ text = <<>> /\ role_category = <<>> /\ updated_text = <<>>
    /\ links_added = 0 /\ clusters_used = <<>>
    /\ again_text = <<>> /\ again_links = 0

NoColorCall ==
    /\ hex_color = <<>> /\ color_name = <<>>
    /\ brightness = 0 /\ color_type = "none"

NoBrandCall == colors_in = <<>> /\ brand_colors = <<>>

NoExtractCall ==
    /\ provider = "none" /\ api_response = <<>>
    /\ brand_data = <<>> /\ raised = FALSE

NoRun ==
    /\ jobs = <<>> /\ company_brands = {} /\ run = <<>>
    /\ runs_started = 0 /\ last_step = <<>> /\ last_saves = {}
    /\ persisted = <<>> /\ skipped = <<>>
    /\ unpaused = <<>> /\ back_to_back = {}

NoRestCall == NoExtractCall /\ NoRun

(***************************************************************************)
(* Inputs of add_links_to_description                                      *)
(***************************************************************************)

\* Longest description, in phrases, of each of the two families of inputs.
MaxRichItems == 2
MaxClusterItems == 4

ExistingLink ==
    <<"[", "fractional", " ", "CFO", "]", "(">> \o RoleUrl("CFO") \o <<")">>

\* Phrases of the CFO and general clusters in singular, plural and other
\* endings and in several casings, a linked phrase and a word no pattern has.
RichItems ==
    { <<"Fractional", " ", "CFO">>,
      <<"Fractional", " ", "CFO", "s">>,
      <<"Fractional", " ", "CFO", "y">>,
      <<"cfo", " ", "Role">>,
      <<"cfo", " ", "Role", "s">>,
      <<"CFO", " ", "opportunit">>,
      <<"CFO", " ", "opportunit", "y">>,
      <<"CFO", " ", "opportunit", "ies">>,
      <<"fractional", " ", "role">>,
      <<"fractional", " ", "role", "S">>,
      <<"FRACTIONAL", " ", "job">>,
      ExistingLink,
      <<"work">> }

\* One phrase of each cluster.
ClusterItems ==
    { <<"part", "-", "time", " ", "CFO">>,
      <<"marketing", " ", "leadership">>,
      <<"Fractional", " ", "Tech", " ", "Director">>,
      <<"COO", " ", "opportunit", "ies">>,
      <<"fractional", " ", "work">> }

\* The items of a description, separated by single spaces.
RECURSIVE JoinItems(_)
JoinItems(items) ==
    IF items = <<>> THEN <<>>
    ELSE IF Len(items) = 1 THEN items[1]
    ELSE items[1] \o <<" ">> \o JoinItems(Tail(items))

SeqsUpTo(S, n) == UNION { [1..m -> S] : m \in 0..n }

\* The sequences that have no item twice.
IsInjective(items) ==
    \A i, j \in 1..Len(items) : items[i] = items[j] => i = j

RichTexts == { JoinItems(items) : items \in SeqsUpTo(RichItems, MaxRichItems) }

ClusterTexts ==
    { JoinItems(items) :
        items \in { q \in SeqsUpTo(ClusterItems, MaxClusterItems) :
                      IsInjective(q) } }

RichHints == { <<>>, <<"CFO">>, <<"Marketing">> }

AllHints ==
    { <<>>, <<"CFO">>, <<"cfo">>, <<"CMO">>, <<"cto">>, <<"COO">>,
      <<"general">>, <<"Finance", " ", "Director">>, <<"Marketing">>,
      <<"Head", " ", "of", " ", "Tech">>, <<"Operations">>,
      <<"Operations", " ", "Director">>, <<"Technology", " ", "Operations">>,
      <<"Sales">> }

(***************************************************************************)
(* Calls of add_links_to_description                                       *)
(***************************************************************************)

InitLinks ==
    /\ pc = "start"
    /\ NoRestCall
    /\ \/ text \in RichTexts /\ role_category \in RichHints
       \/ text \in ClusterTexts /\ role_category \in AllHints
    /\ updated_text = <<>>
    /\ links_added = 0
    /\ clusters_used = <<>>
    /\ again_text = <<>>
    /\ again_links = 0
    /\ NoColorCall
    /\ NoBrandCall

\* updated_text, links_added, clusters = add_links_to_description(text, role)
AddLinks ==
    /\ pc = "start"
    /\ LET r == add_links_to_description(text, role_category)
       IN /\ updated_text' = r.text
          /\ links_added' = r.links_added
          /\ clusters_used' = r.clusters_used
    /\ pc' = "linked"
    /\ UNCHANGED restVars
    /\ UNCHANGED <<text, role_category, again_text, again_links,
                   colorVars, brandVars>>

\* The same call on the text the first call returned.
AddLinksAgain ==
    /\ pc = "linked"
    /\ LET r == add_links_to_description(updated_text, role_category)
       IN /\ again_text' = r.text
          /\ again_links' = r.links_added
    /\ pc' = "relinked"
    /\ UNCHANGED restVars
    /\ UNCHANGED <<text, role_category, updated_text, links_added,
                   clusters_used, colorVars, brandVars>>

NextLinks == AddLinks \/ AddLinksAgain

SpecLinks == InitLinks /\ [][NextLinks]_vars

(***************************************************************************)
(* Calls of calculate_brightness and infer_color_type                      *)
(***************************************************************************)

\* Digit pairs of the colour channels.
ChannelPairs ==
    { <<"0", "0">>, <<"0", "5">>, <<"0", "A">>, <<"7", "f">>, <<"8", "2">>,
      <<"F", "A">>, <<"F", "F">>, <<"f", "f">> }

HexColors ==
    { lead \o r \o g \o b :
        lead \in { <<>>, <<"#">> },
        r \in ChannelPairs, g \in ChannelPairs, b \in ChannelPairs }

ColorNames ==
    { <<>>, <<"Primary">>, <<"Brand", " ", "Accent">>, <<"accent">>,
      <<"Secondary", " ", "Text">>, <<"Text">>, <<"branding">> }

\* Either a colour of the payload is classified as extract_brand_data does
\* it, or infer_color_type is called on a brightness of 0..255.
InitColor ==
    /\ \/ /\ pc = "color"
          /\ hex_color \in HexColors
          /\ color_name \in {<<>>, <<"Primary">>}
          /\ brightness = 0
       \/ /\ pc = "infer"
          /\ hex_color = <<>>
          /\ color_name \in ColorNames
          /\ brightness \in 0..255
    /\ color_type = "none"
    /\ NoRestCall
    /\ NoLinkCall
    /\ NoBrandCall

\* brightness = calculate_brightness(hex_val),
\* type = infer_color_type(name, brightness)
ClassifyColor ==
    /\ pc = "color"
    /\ brightness' = calculate_brightness(hex_color)
    /\ color_type' = infer_color_type(color_name, brightness')
    /\ pc' = "classified"
    /\ UNCHANGED restVars
    /\ UNCHANGED <<hex_color, color_name, linkVars, brandVars>>

\* infer_color_type(color_name, brightness)
InferColorType ==
    /\ pc = "infer"
    /\ color_type' = infer_color_type(color_name, brightness)
    /\ pc' = "inferred"
    /\ UNCHANGED restVars
    /\ UNCHANGED <<hex_color, color_name, brightness, linkVars, brandVars>>

NextColor == ClassifyColor \/ InferColorType

SpecColor == InitColor /\ [][NextColor]_vars

(***************************************************************************)
(* Calls of extract_brand_data (Brand.dev)                                 *)
(***************************************************************************)

\* Longest colour list of a payload.
MaxColors == 4

\* Colours of brightness 10, 10, 100, 130, 130 and 250 with name hints.
PayloadColors ==
    { [hex |-> <<"#", "0", "A", "0", "A", "0", "A">>, name |-> <<"Primary">>],
      [hex |-> <<"0", "a", "0", "a", "0", "b">>,      name |-> <<>>],
      [hex |-> <<"#", "6", "4", "6", "4", "6", "4">>, name |-> <<"Brand">>],
      [hex |-> <<"#", "8", "2", "8", "2", "8", "2">>, name |-> <<>>],
      [hex |-> <<"8", "2", "8", "2", "8", "3">>,      name |-> <<"Primary">>],
      [hex |-> <<"#", "F", "A", "F", "A", "F", "A">>, name |-> <<"accent">>] }

InitBrand ==
    /\ pc = "payload"
    /\ NoRestCall
    /\ colors_in \in SeqsUpTo(PayloadColors, MaxColors)
    /\ brand_colors = <<>>
    /\ NoLinkCall
    /\ NoColorCall

\* brand_data = extract_brand_data(api_response): the colours
ExtractBrandColors ==
    /\ pc = "payload"
    /\ brand_colors' = ExtractColors(colors_in)
    /\ pc' = "extracted"
    /\ UNCHANGED restVars
    /\ UNCHANGED <<colors_in, linkVars, colorVars>>

NextBrand == ExtractBrandColors

SpecBrand == InitBrand /\ [][NextBrand]_vars

(***************************************************************************)
(* Calls of extract_brand_data on whole payloads (both providers)          *)
(***************************************************************************)

\* Longest list of formats of a Brandfetch logo.
MaxFormats == 3

Hex(r, g, b) == <<"#">> \o r \o g \o b

\* A Brand.dev brand object with every field.
FullBrand ==
    [colors |->
        Val(<< [hex  |-> Val(Hex(<<"0", "A">>, <<"0", "A">>, <<"0", "A">>)),
                name |-> Val(<<"Primary">>)],
               [hex  |-> Val(Hex(<<"F", "A">>, <<"F", "A">>, <<"F", "A">>)),
                name |-> Absent] >>),
     logos |->
        Val(<< [type |-> Val("logo"), mode |-> Val("light"),
                url  |-> Val("https://cdn/logo-light.svg")],
               [type |-> Val("icon"), mode |-> Val("has_opaque_background"),
                url  |-> Val("https://cdn/icon.png")] >>),
     backdrops   |-> Val(<< [url |-> Val("https://cdn/backdrop.jpg")] >>),
     description |-> Val("Acme makes anvils"),
     address     |-> Val([city |-> Val("London"), country |-> Val("GB")]),
     industries  |->
        Val([eic |-> Val(<< [industry |-> Val("Software")],
                            [industry |-> Val("")] >>)])]

\* The six fields the quality score looks at, each full, absent or empty.
Presence == {"full", "absent", "empty"}

Choose(presence, full, empty) ==
    IF presence = "full" THEN full
    ELSE IF presence = "absent" THEN Absent ELSE empty

BrandWith(colors, logos, backdrops, description, city, industries) ==
    [colors      |-> Choose(colors, FullBrand.colors, Val(<<>>)),
     logos       |-> Choose(logos, FullBrand.logos, Val(<<>>)),
     backdrops   |-> Choose(backdrops, FullBrand.backdrops, Val(<<>>)),
     description |-> Choose(description, FullBrand.description, Val("")),
     address     |-> Val([city    |-> Choose(city, Val("London"), Val("")),
                          country |-> Val("GB")]),
     industries  |->
        Choose(industries, FullBrand.industries,
               Val([eic |-> Val(<< [industry |-> Val("")] >>)]))]

CompletenessPayloads ==
    { [brand |-> Val(BrandWith(c, l, b, d, a, i))] :
        c \in Presence, l \in Presence, b \in Presence,
        d \in Presence, a \in Presence, i \in Presence }

\* Brand objects one of whose fields, or nested fields, is absent or null.
SparseBrands ==
    { NoBrand,
      [FullBrand EXCEPT !.colors = None],
      [FullBrand EXCEPT !.colors = Val(<< [hex |-> None, name |-> None] >>)],
      [FullBrand EXCEPT !.colors = Val(<< [hex |-> Absent, name |-> None] >>)],
      [FullBrand EXCEPT !.logos = None],
      [FullBrand EXCEPT !.logos =
          Val(<< [type |-> Absent, mode |-> Absent, url |-> Absent] >>)],
      [FullBrand EXCEPT !.logos =
          Val(<< [type |-> None, mode |-> None, url |-> None] >>)],
      [FullBrand EXCEPT !.backdrops = None],
      [FullBrand EXCEPT !.backdrops = Val(<< [url |-> Absent] >>)],
      [FullBrand EXCEPT !.backdrops = Val(<< [url |-> None] >>)],
      [FullBrand EXCEPT !.description = None],
      [FullBrand EXCEPT !.address = Absent],
      [FullBrand EXCEPT !.address = None],
      [FullBrand EXCEPT !.address = Val([city |-> None, country |-> None])],
      [FullBrand EXCEPT !.address = Val(NoAddress)],
      [FullBrand EXCEPT !.industries = None],
      [FullBrand EXCEPT !.industries = Val(NoIndustries)],
      [FullBrand EXCEPT !.industries = Val([eic |-> None])],
      [FullBrand EXCEPT !.industries =
          Val([eic |-> Val(<< [industry |-> None],
                              [industry |-> Absent] >>)])] }

SparsePayloads ==
    { [brand |-> Absent], [brand |-> None] }
        \cup { [brand |-> Val(brand)] : brand \in SparseBrands }

BranddevPayloads == CompletenessPayloads \cup SparsePayloads

\* Formats a Brandfetch logo may offer.
Formats ==
    { [format |-> Val("svg"),  src |-> Val("https://cdn/logo.svg")],
      [format |-> Val("png"),  src |-> Val("https://cdn/logo-small.png")],
      [format |-> Val("png"),  src |-> Val("https://cdn/logo-large.png")],
      [format |-> Val("jpeg"), src |-> Val("https://cdn/logo.jpeg")],
      [format |-> Val("svg"),  src |-> Absent] }

\* A Brandfetch payload with every field; the first logo has the formats.
FullResponse(formats) ==
    [colors |->
        Val(<< [hex |-> Val("#0A0A0A"), type |-> Val("dark"),
                brightness |-> Val(10)] >>),
     fonts |->
        Val(<< [type |-> Val("title"), name |-> Val("Inter")],
               [type |-> Val("body"),  name |-> Val("Georgia")] >>),
     logos |->
        Val(<< [type |-> Val("logo"), theme |-> Val("dark"),
                formats |-> Val(formats)],
               [type |-> Val("icon"), theme |-> Absent,
                formats |-> Val(<< [format |-> Val("png"),
                                    src |-> Val("https://cdn/icon.png")] >>)]
            >>),
     description  |-> Val("Acme makes anvils"),
     company      |->
        Val([foundedYear |-> Val(1999), numberOfEmployees |-> Val(250),
             industries |-> Val(<< [name |-> Val("Software")] >>)]),
     qualityScore |-> Val(85)]

NoResponse ==
    [colors |-> Absent, fonts |-> Absent, logos |-> Absent,
     description |-> Absent, company |-> Absent, qualityScore |-> Absent]

FormatPayloads ==
    { FullResponse(formats) : formats \in SeqsUpTo(Formats, MaxFormats) }

\* Brandfetch payloads one of whose fields, or nested fields, is absent or
\* null.
SparseResponses ==
    LET full == FullResponse(<< >>)
    IN { NoResponse,
         [full EXCEPT !.colors = None],
         [full EXCEPT !.colors =
             Val(<< [hex |-> Absent, type |-> None, brightness |-> None] >>)],
         [full EXCEPT !.fonts = None],
         [full EXCEPT !.fonts = Val(<< [type |-> None, name |-> Absent] >>)],
         [full EXCEPT !.logos = None],
         [full EXCEPT !.logos =
             Val(<< [type |-> Absent, theme |-> None, formats |-> Absent] >>)],
         [full EXCEPT !.logos =
             Val(<< [type |-> None, theme |-> Absent, formats |-> None] >>)],
         [full EXCEPT !.logos =
             Val(<< [type |-> Val("logo"), theme |-> Val("dark"),
                     formats |-> Val(<< [format |-> None, src |-> None],
                                        [format |-> Absent, src |-> Absent],
                                        [format |-> Val("png"),
                                         src |-> None] >>)] >>)],
         [full EXCEPT !.description = None],
         [full EXCEPT !.company = None],
         [full EXCEPT !.company = Val(NoCompany)],
         [full EXCEPT !.company =
             Val([foundedYear |-> None, numberOfEmployees |-> None,
                  industries |-> None])],
         [full EXCEPT !.company =
             Val([foundedYear |-> None, numberOfEmployees |-> None,
                  industries |-> Val(<< [name |-> None],
                                        [name |-> Absent] >>)])],
         [full EXCEPT !.qualityScore = None] }

BrandfetchPayloads == FormatPayloads \cup SparseResponses

\* A provider has answered with a payload.
InitExtract ==
    /\ pc = "response"
    /\ \/ provider = "branddev" /\ api_response \in BranddevPayloads
       \/ provider = "brandfetch" /\ api_response \in BrandfetchPayloads
    /\ brand_data = <<>>
    /\ raised = FALSE
    /\ NoLinkCall
    /\ NoColorCall
    /\ NoBrandCall
    /\ NoRun

\* brand_data = extract_brand_data(api_response) of the Brand.dev script
ExtractBranddev ==
    /\ pc = "response"
    /\ provider = "branddev"
    /\ LET r == extract_brand_data_branddev(api_response)
       IN brand_data' = r.data /\ raised' = r.raised
    /\ pc' = "extracted"
    /\ UNCHANGED <<provider, api_response, linkVars, colorVars, brandVars,
                   runVars>>

\* brand_data = extract_brand_data(api_response) of the Brandfetch script
ExtractBrandfetch ==
    /\ pc = "response"
    /\ provider = "brandfetch"
    /\ LET r == extract_brand_data_brandfetch(api_response)
       IN brand_data' = r.data /\ raised' = r.raised
    /\ pc' = "extracted"
    /\ UNCHANGED <<provider, api_response, linkVars, colorVars, brandVars,
                   runVars>>

NextExtract == ExtractBranddev \/ ExtractBrandfetch

SpecExtract == InitExtract /\ [][NextExtract]_vars

(***************************************************************************)
(* Runs of the four scripts                                                *)
(***************************************************************************)

\* Number of runs started, and largest --limit.
MaxRuns == 2
MaxLimit == 2

LinkScripts == {"regex", "ai"}
BrandScripts == {"brandfetch", "branddev"}

\* Descriptions of the jobs: phrases of the CFO cluster, no phrase of any
\* cluster, a description with a link, and ''.
JobDescriptions ==
    { <<"Fractional", " ", "CFO", "s">>, <<"work">>, ExistingLink, <<>> }

\* Two jobs with descriptions and no company domain.
LinkJobs ==
    { << [full_description |-> first, role_category |-> <<"CFO">>,
          is_active |-> TRUE, company_domain |-> "", company_name |-> "Acme"],
         [full_description |-> second, role_category |-> <<>>,
          is_active |-> active, company_domain |-> "",
          company_name |-> "Zeta"] >> :
        first \in JobDescriptions, second \in JobDescriptions,
        active \in BOOLEAN }

\* Two jobs of companies with a domain, of one company or of two.
BrandJobs ==
    { << [full_description |-> <<>>, role_category |-> <<>>,
          is_active |-> TRUE, company_domain |-> "acme.com",
          company_name |-> "Acme"],
         [full_description |-> <<>>, role_category |-> <<>>,
          is_active |-> TRUE, company_domain |-> company.domain,
          company_name |-> company.name] >> :
        company \in { [domain |-> "acme.com", name |-> "Acme Ltd"],
                      [domain |-> "zeta.io", name |-> "Zeta"],
                      [domain |-> "", name |-> "Zeta"] } }

\* What the agent returns for a description: a failure, the description as
\* it is, or the description with a link.
AgentOutput(choice, description) ==
    IF choice = "failure" THEN None
    ELSE IF choice = "unchanged" THEN Val(description)
    ELSE Val(description \o <<" ">> \o ExistingLink)

AgentChoices == {"failure", "unchanged", "linked"}

\* What Brandfetch answers: nothing (404, an error status, a failed
\* request), or a payload.
BrandfetchResponses ==
    { [name |-> "none", body |-> None],
      [name |-> "full",
       body |-> Val(FullResponse(<< [format |-> Val("svg"),
                                     src |-> Val("https://cdn/logo.svg")] >>))],
      [name |-> "sparse",
       body |-> Val([NoResponse EXCEPT !.description = Val("Acme")])],
      [name |-> "broken",
       body |-> Val([FullResponse(<<>>) EXCEPT !.colors = None])] }

\* What Brand.dev answers: nothing, a payload without a brand, or a payload.
BranddevResponses ==
    { [name |-> "none", body |-> None],
      [name |-> "nobrand", body |-> Val([brand |-> Val(NoBrand)])],
      [name |-> "full", body |-> Val([brand |-> Val(FullBrand)])],
      [name |-> "sparse",
       body |-> Val([brand |->
                  Val([NoBrand EXCEPT !.description = Val("Acme")])])],
      [name |-> "broken",
       body |-> Val([brand |-> Val([FullBrand EXCEPT !.colors = None])])] }

\* The values of --domains.
DomainLists == { <<>>, <<"acme.com">> }

NoStep ==
    [script |-> "none", record |-> <<>>, result |-> None, failed |-> FALSE,
     dry_run |-> FALSE, jobs |-> <<>>, brands |-> {}]

InitRuns ==
    /\ pc = "runs"
    /\ jobs \in LinkJobs \cup BrandJobs
    /\ company_brands = {}
    /\ run = [s \in Scripts |-> Idle]
    /\ runs_started = 0
    /\ last_step = NoStep
    /\ last_saves = {}
    /\ persisted = [s \in Scripts |-> {}]
    /\ skipped = [s \in Scripts |-> {}]
    /\ unpaused = [s \in Scripts |-> FALSE]
    /\ back_to_back = {}
    /\ NoLinkCall
    /\ NoColorCall
    /\ NoBrandCall
    /\ NoExtractCall

\* No script is in its loop.
NoneRunning == \A s \in Scripts : run[s].pc \in {"idle", "done"}

\* A script starts and fetches its batch.
Start(script, batch, dry_run, force) ==
    /\ run[script].pc \in {"idle", "done"}
    /\ runs_started < MaxRuns
    /\ runs_started' = runs_started + 1
    /\ run' = [run EXCEPT ![script] = Started(batch, dry_run, force)]
    /\ unpaused' = [unpaused EXCEPT ![script] = FALSE]
    /\ UNCHANGED <<pc, jobs, company_brands, last_step, last_saves,
                   persisted, skipped, back_to_back,
                   linkVars, colorVars, brandVars, extractVars>>

\* process_jobs(limit, dry_run) of the regex script, up to the loop
StartRegex(limit, dry_run) ==
    Start("regex", fetch_jobs_without_links(jobs, limit), dry_run, FALSE)

\* process_jobs(limit, force_all) of the AI script, up to the loop
StartAi(limit, force_all) ==
    Start("ai",
          IF force_all THEN fetch_all_jobs(jobs, limit)
          ELSE fetch_jobs_without_links(jobs, limit),
          FALSE, force_all)

\* main(limit, dry_run) of the Brandfetch script, up to the loop
StartBrandfetch(limit, dry_run) ==
    Start("brandfetch",
          get_companies_without_brands(jobs, company_brands, limit),
          dry_run, FALSE)

\* main(limit, dry_run, domains) of the Brand.dev script, up to the loop
StartBranddev(limit, dry_run, domains) ==
    Start("branddev",
          IF domains # <<>> THEN CompaniesOf(domains)
          ELSE get_companies_without_branddev(jobs, company_brands, limit),
          dry_run, domains # <<>>)

\* What a turn of a loop leaves behind: the record (a job, or the domain of
\* a company) was written, or a run that could have written it left it as
\* it was and has not written it under another company name either.
Record(script, record, wrote, same) ==
    /\ persisted' =
          IF wrote /\ ~run[script].force
          THEN [persisted EXCEPT ![script] = @ \cup {record}]
          ELSE persisted
    /\ skipped' =
          IF wrote
          THEN [s \in Scripts |->
                  IF s \in same THEN skipped[s] \ {record} ELSE skipped[s]]
          ELSE IF /\ ~run[script].force /\ ~run[script].dry_run
                  /\ record \notin persisted[script]
               THEN [skipped EXCEPT ![script] = @ \cup {record}]
               ELSE skipped

\* A request goes to the provider of the script.
Request(script) ==
    /\ unpaused' = [unpaused EXCEPT ![script] = TRUE]
    /\ back_to_back' =
          IF unpaused[script] THEN back_to_back \cup {script}
          ELSE back_to_back

\* One turn of the loop of process_jobs of the regex script.
RegexStep ==
    LET r == run["regex"]
        job == r.batch[r.i + 1]
        res == add_links_to_description(job.full_description,
                                        job.role_category)
        wrote == Writes(res.links_added, r.dry_run)
    IN /\ r.pc = "loop"
       /\ jobs' = IF wrote
                  THEN update_job_description(jobs, job.id, res.text)
                  ELSE jobs
       /\ run' = [run EXCEPT !["regex"] =
                    Advance(Bump(r, IF res.links_added > 0
                                    THEN "success_count"
                                    ELSE "no_match_count"))]
       /\ last_step' =
             [script |-> "regex", record |-> <<job.id>>,
              result |-> Val(res.text), failed |-> FALSE,
              dry_run |-> r.dry_run, jobs |-> jobs,
              brands |-> company_brands]
       /\ Record("regex", job.id, wrote, LinkScripts)
       /\ UNCHANGED <<pc, company_brands, runs_started, last_saves,
                      unpaused, back_to_back,
                      linkVars, colorVars, brandVars, extractVars>>

\* One turn of the loop of process_jobs of the AI script, up to the pause:
\* a job that has links is passed over unless all jobs are forced;
\* otherwise the agent is asked, and its output is written if it has a link.
AiStep(choice) ==
    LET r == run["ai"]
        job == r.batch[r.i + 1]
        result == AgentOutput(choice, job.full_description)
        wrote == result # None /\ HasMarker(result.v)
    IN /\ r.pc = "loop"
       /\ IF ~r.force /\ HasMarker(job.full_description)
          THEN /\ run' = [run EXCEPT !["ai"] = Advance(r)]
               /\ UNCHANGED <<jobs, last_step, persisted, skipped,
                              unpaused, back_to_back>>
          ELSE /\ jobs' = IF wrote
                          THEN update_job_description(jobs, job.id, result.v)
                          ELSE jobs
               /\ run' = [run EXCEPT !["ai"] =
                            [Bump(r, IF wrote THEN "success_count"
                                     ELSE "error_count")
                                EXCEPT !.i = @ + 1, !.pc = "pause"]]
               /\ last_step' =
                     [script |-> "ai", record |-> <<job.id>>,
                      result |-> result, failed |-> result = None,
                      dry_run |-> FALSE, jobs |-> jobs,
                      brands |-> company_brands]
               /\ Record("ai", job.id, wrote, LinkScripts)
               /\ Request("ai")
       /\ UNCHANGED <<pc, company_brands, runs_started, last_saves,
                      linkVars, colorVars, brandVars, extractVars>>

\* await asyncio.sleep(0.5), and the next turn or the end of the loop
AiPause ==
    LET r == run["ai"]
    IN /\ r.pc = "pause"
       /\ run' = [run EXCEPT !["ai"].pc =
                    IF r.i = Len(r.batch) THEN "done" ELSE "loop"]
       /\ unpaused' = [unpaused EXCEPT !["ai"] = FALSE]
       /\ UNCHANGED <<pc, jobs, company_brands, runs_started, last_step,
                      last_saves, persisted, skipped, back_to_back,
                      linkVars, colorVars, brandVars, extractVars>>

\* One turn of the loop of main of a brand script: the provider is asked;
\* an answer is extracted and, unless the run is dry, saved; no answer is
\* a skip and an exception an error.
BrandStep(script, answered, extracted, values) ==
    LET r == run[script]
        company == r.batch[r.i + 1]
        saved == answered /\ ~extracted.raised /\ ~r.dry_run
    IN /\ r.pc = "loop"
       /\ company_brands' =
             IF saved
             THEN Upsert(company_brands, company.company_domain, values)
             ELSE company_brands
       /\ last_saves' =
             IF saved
             THEN {s \in last_saves : s.domain # company.company_domain}
                    \cup { [domain |-> company.company_domain,
                            values |-> values] }
             ELSE last_saves
       /\ run' = [run EXCEPT ![script] =
                    Advance(Bump(r,
                        IF ~answered THEN "skip_count"
                        ELSE IF extracted.raised THEN "error_count"
                        ELSE "success_count"))]
       /\ last_step' =
             [script |-> script, record |-> <<company.company_domain>>,
              result |-> None,
              failed |-> ~answered \/ extracted.raised,
              dry_run |-> r.dry_run, jobs |-> jobs,
              brands |-> company_brands]
       /\ Record(script, company.company_domain, saved, BrandScripts)
       /\ Request(script)
       /\ UNCHANGED <<pc, jobs, runs_started,
                      linkVars, colorVars, brandVars, extractVars>>

\* One turn of the loop of main of the Brandfetch script.
BrandfetchStep(response) ==
    LET answered == BrandfetchAnswered(response.body)
        extracted == IF answered
                     THEN extract_brand_data_brandfetch(response.body.v)
                     ELSE [raised |-> FALSE, data |-> <<>>]
        company == run["brandfetch"].batch[run["brandfetch"].i + 1]
    IN BrandStep("brandfetch", answered, extracted,
                 IF answered /\ ~extracted.raised
                 THEN BrandfetchValues(company.company_name, extracted.data,
                                       response.name)
                 ELSE <<>>)

\* One turn of the loop of main of the Brand.dev script.
BranddevStep(response) ==
    LET answered == BranddevAnswered(response.body)
        extracted == IF answered
                     THEN extract_brand_data_branddev(response.body.v)
                     ELSE [raised |-> FALSE, data |-> <<>>]
        company == run["branddev"].batch[run["branddev"].i + 1]
    IN BrandStep("branddev", answered, extracted,
                 IF answered /\ ~extracted.raised
                 THEN BranddevValues(company.company_name, extracted.data,
                                     response.name)
                 ELSE <<>>)

\* Runs one after the other.
NextRuns ==
    \/ \E limit \in 1..MaxLimit, dry_run \in BOOLEAN :
          NoneRunning /\ StartRegex(limit, dry_run)
    \/ \E limit \in 1..MaxLimit, force_all \in BOOLEAN :
          NoneRunning /\ StartAi(limit, force_all)
    \/ \E limit \in 1..MaxLimit, dry_run \in BOOLEAN :
          NoneRunning /\ StartBrandfetch(limit, dry_run)
    \/ \E limit \in 1..MaxLimit, dry_run \in BOOLEAN,
          domains \in DomainLists :
          NoneRunning /\ StartBranddev(limit, dry_run, domains)
    \/ RegexStep
    \/ \E choice \in AgentChoices : AiStep(choice)
    \/ AiPause
    \/ \E response \in BrandfetchResponses : BrandfetchStep(response)
    \/ \E response \in BranddevResponses : BranddevStep(response)

SpecRuns == InitRuns /\ [][NextRuns]_vars

\* Runs of the two brand scripts that may overlap.
InitSaves == InitRuns /\ jobs \in BrandJobs

NextSaves ==
    \/ \E limit \in 1..MaxLimit, dry_run \in BOOLEAN :
          StartBrandfetch(limit, dry_run)
    \/ \E limit \in 1..MaxLimit, dry_run \in BOOLEAN,
          domains \in DomainLists :
          StartBranddev(limit, dry_run, domains)
    \/ \E response \in BrandfetchResponses : BrandfetchStep(response)
    \/ \E response \in BranddevResponses : BranddevStep(response)

SpecSaves == InitSaves /\ [][NextSaves]_vars

(***************************************************************************)
(* Properties of add_links_to_description                                  *)
(***************************************************************************)

\* The first call has returned.
Linked == pc \in {"linked", "relinked"}

\* Number of '](/fractional-jobs' markers in t.
CountMarkers(t) == Cardinality({k \in 1..Len(t) : MarkerAt(t, k)})

\* Does t hold a '](/fractional-jobs' marker?
ContainsMarker(t) == CountMarkers(t) > 0

\* Does some pattern of the cluster match t?
ClusterMatches(name, t) == FirstMatching(KEYWORD_CLUSTERS[name].patterns, t) > 0

\* The positions of t where some pattern of the cluster matches.
MatchPositions(name, t) ==
    LET patterns == KEYWORD_CLUSTERS[name].patterns
    IN {i \in WordStarts(t) :
          \E p \in 1..Len(patterns) : MatchLen(patterns[p], t, i) > 0}

ClusterNames == {"CFO", "CMO", "CTO", "COO", "general"}

\* Is a a subsequence of b?
RECURSIVE IsSubseq(_, _)
IsSubseq(a, b) ==
    IF a = <<>> THEN TRUE
    ELSE IF b = <<>> THEN FALSE
    ELSE IF Head(a) = Head(b) THEN IsSubseq(Tail(a), Tail(b))
    ELSE IsSubseq(a, Tail(b))

\* t without link markup: every "[" and every "](...)" removed.
RECURSIVE StripLinks(_)
RECURSIVE DropThroughParen(_)
DropThroughParen(t) ==
    IF t = <<>> THEN <<>>
    ELSE IF Head(t) = ")" THEN StripLinks(Tail(t))
    ELSE DropThroughParen(Tail(t))
StripLinks(t) ==
    IF t = <<>> THEN <<>>
    ELSE IF Head(t) = "[" THEN StripLinks(Tail(t))
    ELSE IF Head(t) = "]" THEN DropThroughParen(Tail(t))
    ELSE <<Head(t)>> \o StripLinks(Tail(t))

\* C1: links_added equals the length of clusters_used, is at most 3 and is
\* the number of '](/fractional-jobs' markers the call added to the text.
BudgetRespected ==
    Linked =>
        /\ links_added = Len(clusters_used)
        /\ links_added <= 3
        /\ links_added = CountMarkers(updated_text) - CountMarkers(text)

\* A call that stopped at the budget: four or more clusters match the text.
BudgetReached ==
    /\ pc = "linked"
    /\ links_added = 3
    /\ Cardinality({c \in ClusterNames : ClusterMatches(c, text)}) >= 4

\* C2: clusters_used has no cluster name twice.
ClusterExclusive ==
    Linked =>
        \A i, j \in 1..Len(clusters_used) :
            clusters_used[i] = clusters_used[j] => i = j

\* A cluster that matches at two places of the text and was linked.
ClusterMatchedTwice ==
    /\ pc = "linked"
    /\ \E k \in 1..Len(clusters_used) :
          Cardinality(MatchPositions(clusters_used[k], text)) >= 2

\* C3: a text that already holds a '](/fractional-jobs' marker is returned
\* unchanged, with links_added = 0 and clusters_used empty.
LinkedTextUntouched ==
    (Linked /\ ContainsMarker(text)) =>
        /\ updated_text = text
        /\ links_added = 0
        /\ clusters_used = <<>>

\* A text with a marker and a phrase of some cluster, called with a hint.
LinkedTextWithPhrase ==
    /\ pc = "linked"
    /\ ContainsMarker(text)
    /\ role_category # <<>>
    /\ \E c \in ClusterNames : ClusterMatches(c, text)

\* C4: a second call on updated_text returns it unchanged and adds no link.
Idempotent ==
    pc = "relinked" => (again_text = updated_text /\ again_links = 0)

\* A second call after a first one that added links, on a text in which a
\* pattern still matches.
SecondCallAfterLinks ==
    /\ pc = "relinked"
    /\ links_added > 0
    /\ \E c \in ClusterNames : ClusterMatches(c, updated_text)

\* C5: removing the added "[" and "](target link)" from updated_text gives
\* back the input text, chunk for chunk.
WrapsMatchedSpanOnly ==
    Linked =>
        IF ContainsMarker(text) THEN updated_text = text
        ELSE StripLinks(updated_text) = text

\* The cluster the claim resolves a role hint to ("none" when unresolvable).
ResolvedCluster(hint) ==
    LET u == UpperStr(hint)
    IN IF hint = <<>> THEN "none"
       ELSE IF Len(hint) = 1 /\ hint[1] \in ClusterNames THEN hint[1]
       ELSE IF KeywordIn("CFO", u) \/ KeywordIn("FINANCE", u) THEN "CFO"
       ELSE IF KeywordIn("CMO", u) \/ KeywordIn("MARKET", u) THEN "CMO"
       ELSE IF KeywordIn("CTO", u) \/ KeywordIn("TECH", u) THEN "CTO"
       ELSE IF KeywordIn("COO", u) \/ KeywordIn("OPERATION", u) THEN "COO"
       ELSE "none"

\* Resolved cluster, then general, then the other role clusters.
ExpectedOrder(hint) ==
    LET r == ResolvedCluster(hint)
    IN (IF r \in {"none", "general"} THEN <<"general">> ELSE <<r, "general">>)
       \o SelectSeq(<<"CFO", "CMO", "CTO", "COO">>, LAMBDA c : c # r)

CfoThenGeneral ==
    /\ Len(clusters_used) >= 2
    /\ clusters_used[1] = "CFO"
    /\ clusters_used[2] = "general"

\* C6 as stated: clusters_used is a subsequence of the order of the claim,
\* and with hint 'CFO' and a text with a CFO phrase and a general phrase it
\* starts with CFO, general.
OrderAsStated ==
    Linked =>
        /\ IsSubseq(clusters_used, ExpectedOrder(role_category))
        /\ (role_category = <<"CFO">> /\ ClusterMatches("CFO", text)
              /\ ClusterMatches("general", text)) => CfoThenGeneral

\* C6 amended: the same, for texts that hold no '](/fractional-jobs' marker
\* in the CFO-then-general case.
OrderRespected ==
    Linked =>
        /\ IsSubseq(clusters_used, ExpectedOrder(role_category))
        /\ (role_category = <<"CFO">> /\ ~ContainsMarker(text)
              /\ ClusterMatches("CFO", text)
              /\ ClusterMatches("general", text)) => CfoThenGeneral

\* Hint 'CFO', a general phrase before a CFO phrase, both linked.
CfoHintBothPhrases ==
    /\ pc = "linked"
    /\ role_category = <<"CFO">>
    /\ ~ContainsMarker(text)
    /\ ClusterMatches("CFO", text)
    /\ ClusterMatches("general", text)
    /\ \E i \in MatchPositions("general", text) :
          \A j \in MatchPositions("CFO", text) : i < j

(***************************************************************************)
(* Properties of calculate_brightness and infer_color_type                 *)
(***************************************************************************)

Black == {<<"0", "0", "0", "0", "0", "0">>, <<"#", "0", "0", "0", "0", "0", "0">>}
White == { lead \o ff \o ff \o ff :
             lead \in {<<>>, <<"#">>}, ff \in {<<"F", "F">>, <<"f", "f">>} }

\* n / d rounded to the nearest integer (n, d positive; halves go up).
RoundedQuotient(n, d) == (2 * n + d) \div (2 * d)

\* C7 as stated: the brightness is within 0..255 and is the weighted sum
\* divided by 1000 and rounded to the nearest integer.
BrightnessRoundedToNearest ==
    pc = "classified" =>
        /\ brightness \in 0..255
        /\ brightness = RoundedQuotient(Luminance(hex_color), 1000)
        /\ hex_color \in Black => brightness = 0
        /\ hex_color \in White => brightness = 255

\* C7 amended: the brightness is within 0..255 and is the weighted sum
\* divided by 1000 and rounded down; black gives 0 and white 255.
BrightnessRoundedDown ==
    pc = "classified" =>
        /\ brightness \in 0..255
        /\ 1000 * brightness <= Luminance(hex_color)
        /\ Luminance(hex_color) < 1000 * (brightness + 1)
        /\ hex_color \in Black => brightness = 0
        /\ hex_color \in White => brightness = 255

\* A colour written with '#' whose quotient has a fraction of a half or more.
BrightnessFractionHigh ==
    /\ pc = "classified"
    /\ Head(hex_color) = "#"
    /\ Luminance(hex_color) % 1000 >= 500

BrandName == NameHas("primary", color_name) \/ NameHas("brand", color_name)
AccentName == NameHas("accent", color_name) \/ NameHas("secondary", color_name)

\* C8: below 50 dark, above 200 light, else brand for a primary/brand name,
\* else accent for an accent/secondary name, else dark below 128 and accent
\* from 128 on.
RolePrecedence ==
    pc \in {"inferred", "classified"} =>
        /\ brightness < 50 => color_type = "dark"
        /\ brightness > 200 => color_type = "light"
        /\ (brightness \in 50..200 /\ BrandName) => color_type = "brand"
        /\ (brightness \in 50..200 /\ ~BrandName /\ AccentName)
              => color_type = "accent"
        /\ (brightness \in 50..127 /\ ~BrandName /\ ~AccentName)
              => color_type = "dark"
        /\ (brightness \in 128..200 /\ ~BrandName /\ ~AccentName)
              => color_type = "accent"
        /\ hex_color \in Black => color_type = "dark"
        /\ hex_color \in White => color_type = "light"

\* A brightness extreme with a name hint that says otherwise.
ExtremeOverridesName ==
    /\ pc = "inferred"
    /\ brightness > 200
    /\ BrandName
    /\ color_type = "light"

(***************************************************************************)
(* Properties of extract_brand_data (Brand.dev)                            *)
(***************************************************************************)

\* Number of entries of the list with the given hex string.
CountHex(colors, hex) ==
    Cardinality({k \in 1..Len(colors) : colors[k].hex = hex})

\* The role infer_color_type gives the k-th colour of the payload.
HintRole(k) ==
    infer_color_type(colors_in[k].name, calculate_brightness(colors_in[k].hex))

\* C9: two or more colours come back sorted by ascending brightness, the
\* first dark, the last light, the second of three or more accent, the
\* others with their hint-based role; brightness 10, 130, 250 gives dark,
\* accent, light.
PositionalRoles ==
    (pc = "extracted" /\ Len(colors_in) >= 2) =>
        LET n == Len(brand_colors)
        IN /\ n = Len(colors_in)
           /\ \A k \in 1..n :
                 CountHex(brand_colors, colors_in[k].hex)
                     = CountHex(colors_in, colors_in[k].hex)
           /\ \A k \in 1..n :
                 brand_colors[k].brightness
                     = calculate_brightness(brand_colors[k].hex)
           /\ \A i, j \in 1..n :
                 i < j => brand_colors[i].brightness <= brand_colors[j].brightness
           /\ brand_colors[1].type = "dark"
           /\ brand_colors[n].type = "light"
           /\ n >= 3 => brand_colors[2].type = "accent"
           /\ \A i \in 3..(n - 1) :
                 \E k \in 1..n :
                    /\ colors_in[k].hex = brand_colors[i].hex
                    /\ brand_colors[i].type = HintRole(k)
           /\ (n = 3 /\ {colors_in[k].hex : k \in 1..n}
                          = {<<"#", "0", "A", "0", "A", "0", "A">>,
                             <<"#", "8", "2", "8", "2", "8", "2">>,
                             <<"#", "F", "A", "F", "A", "F", "A">>})
                 => /\ [k \in 1..3 |-> brand_colors[k].brightness]
                          = <<10, 130, 250>>
                    /\ [k \in 1..3 |-> brand_colors[k].type]
                          = <<"dark", "accent", "light">>

\* Four colours given brightest first, the one that ends up third keeping
\* a role from its name hint.
UnsortedFourColours ==
    /\ pc = "extracted"
    /\ Len(colors_in) = 4
    /\ calculate_brightness(colors_in[1].hex) > calculate_brightness(colors_in[4].hex)
    /\ brand_colors[3].type = "brand"

\* C10: a single colour keeps the role infer_color_type gives it, and an
\* empty list stays empty.
SingleColourKeepsRole ==
    (pc = "extracted" /\ Len(colors_in) <= 1) =>
        /\ Len(brand_colors) = Len(colors_in)
        /\ Len(colors_in) = 1 => brand_colors[1].type = HintRole(1)

(***************************************************************************)
(* Properties of extract_brand_data on whole payloads                      *)
(***************************************************************************)

\* extract_brand_data of the provider has returned a record.
Extracted(p) == pc = "extracted" /\ provider = p /\ ~raised

\* Is a nullable string of the record filled in?
Filled(field) == field # None /\ field # Val("")

\* Number of non-empty completeness items of the Brand.dev record.
NonEmptyItems ==
    Cardinality(
        {item \in {"colors", "logos", "banners", "description", "city",
                   "industries"} :
            CASE item = "colors"      -> brand_data.colors # <<>>
              [] item = "logos"       -> DOMAIN brand_data.logos # {}
              [] item = "banners"     -> DOMAIN brand_data.banners # {}
              [] item = "description" -> Filled(brand_data.description)
              [] item = "city"        -> Filled(brand_data.city)
              [] item = "industries"  -> brand_data.industries # <<>>})

\* C11: the Brand.dev quality_score (in hundredths) is k/6 rounded to two
\* decimals, k being the number of non-empty items among colors, logos,
\* banners, description, city and industries; it lies in [0, 1], is 0 only
\* when all six are empty and 1 only when all six are present.
QualityScoreIsCompleteness ==
    Extracted("branddev") =>
        LET k == NonEmptyItems
            q == brand_data.quality_score
        IN /\ q \in 0..100
           /\ 6 * q - 100 * k \in -3..3
           /\ q = 0 <=> k = 0
           /\ q = 100 <=> k = 6

\* Four of the six items are non-empty: the score is 0.67.
FourOfSixItems == Extracted("branddev") /\ brand_data.quality_score = 67

\* The field names of the normalized brand record.
NormalizedFields ==
    {"colors", "font_title", "font_body", "logos", "banners", "description",
     "founded", "employees", "city", "country", "company_kind", "industries",
     "quality_score"}

\* C12: the brand record has the same fixed set of field names for both
\* providers and every payload; a missing field is present as null or empty,
\* never left out.
SameFieldNames ==
    (pc = "extracted" /\ ~raised) => DOMAIN brand_data = NormalizedFields

\* C13: extract_brand_data of either provider completes on a sparse payload,
\* whatever optional or nested fields are missing or null.
CompletesOnSparsePayload == pc = "extracted" => ~raised

\* The formats the first logo of the payload offers.
OfferedFormats == api_response.logos.v[1].formats.v

\* The positions of the offered formats of the given kind.
Offers(kind) ==
    {k \in 1..Len(OfferedFormats) : OfferedFormats[k].format = Val(kind)}

\* The URL the record retains for the first logo, Absent if none.
Retained ==
    LET key == <<"logo", "_", "dark">>
    IN IF key \in DOMAIN brand_data.logos
       THEN brand_data.logos[key] ELSE Absent

\* The URL of an offered format, null if it has none.
UrlOf(k) ==
    IF OfferedFormats[k].src = Absent THEN None ELSE OfferedFormats[k].src

\* A Brandfetch logo with a list of formats has been extracted.
LogoExtracted == Extracted("brandfetch") /\ api_response \in FormatPayloads

LinksTo(t, url) ==
    {j \in 1..Len(t) :
        /\ t[j] = "]"
        /\ j + Len(url) + 2 <= Len(t)
        /\ SubSeq(t, j + 1, j + Len(url) + 2) = <<"(">> \o url \o <<")">>}

\* The position of the "[" of the link whose "]" is at j.
OpenOf(t, j) == Max({k \in 1..(j - 1) : t[k] = "["})

\* Number of words that start before position k of t.
WordsBefore(t, k) == Cardinality({i \in WordStarts(t) : i < k})

\* Was the cluster used by the first call?
Used(name) == \E n \in 1..Len(clusters_used) : clusters_used[n] = name

\* C18: a cluster that is used gets exactly one link; it is on the leftmost
\* occurrence of the first pattern, in priority order, that matches anywhere
\* in the text; every other occurrence and every lower-priority phrase of
\* the cluster stays unlinked, also one that comes earlier in the text.
FirstPatternLeftmost ==
    (Linked /\ ~ContainsMarker(text)) =>
        \A name \in ClusterNames :
            LET patterns == KEYWORD_CLUSTERS[name].patterns
                links == LinksTo(updated_text, KEYWORD_CLUSTERS[name].url)
                p == FirstMatching(patterns, text)
            IN IF ~Used(name) THEN links = {}
               ELSE /\ p > 0
                    /\ Cardinality(links) = 1
                    /\ LET j == CHOOSE x \in links : TRUE
                           open == OpenOf(updated_text, j)
                           i == Search(patterns[p], text)
                       IN /\ SubSeq(updated_text, open + 1, j - 1)
                                = GroupText(patterns[p], text, i)
                          /\ WordsBefore(
                                StripLinks(SubSeq(updated_text, 1, open - 1)),
                                open)
                                = WordsBefore(text, i)

\* The CFO cluster is used on a text where a lower-priority phrase of the
\* cluster comes before the phrase that is linked.
LowerPriorityPhraseEarlier ==
    /\ Linked /\ ~ContainsMarker(text) /\ Used("CFO")
    /\ LET patterns == KEYWORD_CLUSTERS["CFO"].patterns
           p == FirstMatching(patterns, text)
           i == Search(patterns[p], text)
       IN \E q \in (p + 1)..Len(patterns) :
             \E k \in 1..(i - 1) : MatchLen(patterns[q], text, k) > 0

(***************************************************************************)
(* Properties of the runs                                                  *)
(***************************************************************************)

\* The last turn of a loop was one of a link script.
LinkStep == last_step.script \in LinkScripts

\* C14: a link script writes a description only when the result of the
\* transform contains a '](/fractional-jobs' marker and, in the regex
\* script, the run is not dry; otherwise nothing is written and the stored
\* description stays as it was.
WrittenOnlyWithLinks ==
    LinkStep =>
        LET id == last_step.record[1]
            write == /\ last_step.result # None
                     /\ ContainsMarker(last_step.result.v)
                     /\ ~last_step.dry_run
        IN /\ jobs[id].full_description =
                 IF write THEN last_step.result.v
                 ELSE last_step.jobs[id].full_description
           /\ \A other \in DOMAIN jobs \ {id} : jobs[other] = last_step.jobs[other]

\* A dry run of the regex script found links to add.
DryRunFoundLinks ==
    /\ last_step.script = "regex"
    /\ last_step.dry_run
    /\ ContainsMarker(last_step.result.v)

\* The records a loop has counted.
Counted(r) ==
    r.success_count + r.skip_count + r.error_count + r.no_match_count

\* C16: a failure of the transform of one record is recovered: the record
\* is not persisted, the loop goes on to the end of the batch, and every
\* record visited is counted in exactly one counter, so that the counters
\* of a finished run add up to the size of the batch.
FailuresRecoveredAndCounted ==
    /\ \A s \in Scripts :
          /\ run[s].pc \in {"loop", "pause"} => Counted(run[s]) = run[s].i
          /\ run[s].pc = "done" =>
                /\ run[s].i = Len(run[s].batch)
                /\ Counted(run[s]) = Len(run[s].batch)
    /\ last_step.failed =>
          jobs = last_step.jobs /\ company_brands = last_step.brands

\* A run has ended with a record that succeeded after one that failed.
SucceededAfterFailure ==
    \E s \in {"ai", "brandfetch", "branddev"} :
        /\ run[s].pc = "done"
        /\ last_step.script = s
        /\ ~last_step.failed
        /\ run[s].success_count = 1
        /\ run[s].skip_count + run[s].error_count = 1

\* Would a run of the script without force select the record now?
Candidate(script, record) ==
    CASE script = "regex" ->
            \E k \in 1..Len(fetch_jobs_without_links(jobs, Len(jobs))) :
                fetch_jobs_without_links(jobs, Len(jobs))[k].id = record
      [] script = "ai" ->
            \E k \in 1..Len(fetch_jobs_without_links(jobs, Len(jobs))) :
                fetch_jobs_without_links(jobs, Len(jobs))[k].id = record
      [] script = "brandfetch" ->
            LET batch == get_companies_without_brands(jobs, company_brands,
                                                      Len(jobs))
            IN \E k \in 1..Len(batch) : batch[k].company_domain = record
      [] script = "branddev" ->
            LET batch == get_companies_without_branddev(jobs, company_brands,
                                                        Len(jobs))
            IN \E k \in 1..Len(batch) : batch[k].company_domain = record

\* C17: over the runs of a script without force and dry run, a record (a
\* job, or the domain of a company) the script persisted is no longer
\* selected by its candidate filter, and a record it skipped or failed on,
\* and that no save has written, still is.
PersistedLeavesFilter ==
    \A s \in Scripts :
        /\ \A record \in persisted[s] : ~Candidate(s, record)
        /\ \A record \in skipped[s] : Candidate(s, record)

\* A second run of a script has fetched the records its first run skipped,
\* and not the ones it persisted.
SecondRunRefetchesSkipped ==
    \E s \in Scripts :
        /\ runs_started = 2
        /\ \A t \in Scripts \ {s} : run[t].pc = "idle"
        /\ run[s].pc = "loop" /\ run[s].i = 0
        /\ persisted[s] # {}
        /\ skipped[s] # {}

\* C15: after any sequence of saves of the two brand scripts the table has
\* at most one row for a domain, and every column of the row, the provider
\* among them, has the value the last save of the domain wrote: nothing of
\* an earlier save is left.
LastWriteWins ==
    /\ \A row, other \in company_brands :
          row.domain = other.domain => row = other
    /\ \A row \in company_brands :
          \E save \in last_saves :
             /\ save.domain = row.domain
             /\ row.cols = [c \in Columns |->
                              IF c \in DOMAIN save.values
                              THEN save.values[c] ELSE NULL]

\* C20: every script that calls a provider pauses between two consecutive
\* records: no request follows another one without a pause in between.
PauseBetweenRequests == back_to_back = {}

(***************************************************************************)
(* The links of one call, side by side                                     *)
(***************************************************************************)

\* The chunks of markdown link markup.
Markup == {"[", "]", "(", ")"}

\* Does t hold no link markup?
NoMarkup(t) == \A k \in 1..Len(t) : t[k] \notin Markup

\* The markup chunks of t, in the order they have in t.
RECURSIVE MarkupOf(_)
MarkupOf(t) ==
    IF t = <<>> THEN <<>>
    ELSE IF Head(t) \in Markup THEN <<Head(t)>> \o MarkupOf(Tail(t))
    ELSE MarkupOf(Tail(t))

\* The markup of n links that stand side by side: [ ] ( ) n times over.
RECURSIVE SideBySide(_)
SideBySide(n) ==
    IF n = 0 THEN <<>> ELSE <<"[", "]", "(", ")">> \o SideBySide(n - 1)

\* The position of the first ")" of t after position j.
CloseOf(t, j) == Min({k \in (j + 1)..Len(t) : t[k] = ")"})

\* The targets of the clusters.
ClusterUrls == { KEYWORD_CLUSTERS[name].url : name \in ClusterNames }

\* C21: on a text without link markup the links of one call never overlap:
\* the markup of the returned text is that of links_added links side by
\* side, none nested in or cutting across another; each link is whole, its
\* "]" directly followed by "(" and a cluster's URL up to the next ")", so
\* no later pattern matched inside the anchor or the URL of an earlier link.
InsertedLinksDisjoint ==
    (Linked /\ NoMarkup(text)) =>
        /\ MarkupOf(updated_text) = SideBySide(links_added)
        /\ \A j \in 1..Len(updated_text) :
              updated_text[j] = "]" =>
                  /\ updated_text[j + 1] = "("
                  /\ SubSeq(updated_text, j + 2, CloseOf(updated_text, j) - 1)
                        \in ClusterUrls

\* The CFO cluster was linked first and the general cluster after it, by its
\* pattern 'fractional job', on a text that by then held the CFO link's URL
\* '/fractional-jobs?role=CFO'.
GeneralLinkedAfterRoleUrl ==
    /\ Linked /\ NoMarkup(text)
    /\ Len(clusters_used) >= 2
    /\ clusters_used[1] = "CFO"
    /\ clusters_used[2] = "general"
    /\ \E j \in 2..Len(updated_text) :
          /\ updated_text[j] = "]"
          /\ Lower(updated_text[j - 1]) = "job"

====
